---- MODULE Spec2Model ----
(***************************************************************************)
(* Model of the MOS bulletin decoder of cia-backed (src/src/mos/mod.rs).   *)
(*                                                                         *)
(* Strings are sequences of one-character strings.  Offsets are the        *)
(* 0-based byte offsets the Rust code works with (every character of the   *)
(* model's alphabet is one byte), so s[a..b] is SubSeq(s, a + 1, b).       *)
(* Option<T> is modelled as a sequence: None is << >>, Some(v) is <<v>>.   *)
(* Instants are minutes since 1970-01-01T00:00Z.                           *)
(***************************************************************************)
EXTENDS Integers, Sequences

VARIABLES raw, pc, result

vars == <<raw, pc, result>>

(***************************************************************************)
(* Characters and elementary string operations of the standard library.    *)
(***************************************************************************)
Digits == {"0", "1", "2", "3", "4", "5", "6", "7", "8", "9"}

IsDigit(c) == c \in Digits

DigitVal(c) ==
  CASE c = "0" -> 0 [] c = "1" -> 1 [] c = "2" -> 2 [] c = "3" -> 3
    [] c = "4" -> 4 [] c = "5" -> 5 [] c = "6" -> 6 [] c = "7" -> 7
    [] c = "8" -> 8 [] c = "9" -> 9

\* The only whitespace of the model's alphabet besides the line separator,
\* which never occurs inside a line.
IsSpace(c) == c = " "

\* s[a..b] of Rust, defined when a <= b <= s.len().
Slice(s, a, b) == SubSeq(s, a + 1, b)

\* Whether s[a..b] panics (begin > end, or end out of range).
SlicePanics(s, a, b) == a > b \/ b > Len(s)

\* Number of leading characters of s, from 0-based offset p on, that satisfy
\* IsSpace: the offset of the first non-space character at or after p, or
\* s.len() when there is none.
RECURSIVE SkipSpaces(_, _)
SkipSpaces(s, p) ==
  IF p < Len(s) /\ IsSpace(s[p + 1]) THEN SkipSpaces(s, p + 1) ELSE p

\* The offset of the first space at or after p, or s.len().
RECURSIVE SkipNonSpaces(_, _)
SkipNonSpaces(s, p) ==
  IF p < Len(s) /\ ~IsSpace(s[p + 1]) THEN SkipNonSpaces(s, p + 1) ELSE p

\* The offset after the last non-space character of s, or 0.
RECURSIVE LastNonSpace(_, _)
LastNonSpace(s, p) ==
  IF p > 0 /\ IsSpace(s[p]) THEN LastNonSpace(s, p - 1) ELSE p

\* str::trim
Trim(s) ==
  LET a == SkipSpaces(s, 0)
      b == LastNonSpace(s, Len(s))
  IN  IF a >= b THEN << >> ELSE Slice(s, a, b)

\* str::trim_left, used by chrono's scanner
TrimLeft(s) == Slice(s, SkipSpaces(s, 0), Len(s))

\* str::split("\n"): always at least one piece, the empty string gives [""].
RECURSIVE SplitFrom(_, _, _)
SplitFrom(s, p, cur) ==
  IF p > Len(s) THEN <<cur>>
  ELSE IF s[p] = "\n" THEN <<cur>> \o SplitFrom(s, p + 1, << >>)
  ELSE SplitFrom(s, p + 1, Append(cur, s[p]))

Split(s) == SplitFrom(s, 1, << >>)

\* str::split_whitespace: the maximal runs of non-whitespace characters.
RECURSIVE SplitWhitespaceFrom(_, _)
SplitWhitespaceFrom(s, p) ==
  LET a == SkipSpaces(s, p)
      b == SkipNonSpaces(s, a)
  IN  IF a >= Len(s) THEN << >>
      ELSE <<Slice(s, a, b)>> \o SplitWhitespaceFrom(s, b)

SplitWhitespace(s) == SplitWhitespaceFrom(s, 0)

\* The number of leading digits of s, at most max.
RECURSIVE CountDigits(_, _, _)
CountDigits(s, k, max) ==
  IF k < max /\ k < Len(s) /\ IsDigit(s[k + 1])
  THEN CountDigits(s, k + 1, max) ELSE k

\* The value of a string of digits.
RECURSIVE DigitsValue(_, _)
DigitsValue(s, acc) ==
  IF s = << >> THEN acc ELSE DigitsValue(Tail(s), 10 * acc + DigitVal(s[1]))

\* str::parse::<isize>: an optional sign followed by one or more digits, and
\* nothing else.  (The cells of the model are far shorter than the 19 digits
\* at which an isize overflows.)
ParseIsize(s) ==
  LET signed == s # << >> /\ s[1] \in {"+", "-"}
      body   == IF signed THEN Tail(s) ELSE s
      value  == DigitsValue(body, 0)
  IN  IF body # << >> /\ \A k \in 1..Len(body) : IsDigit(body[k])
      THEN <<IF signed /\ s[1] = "-" THEN 0 - value ELSE value>>
      ELSE << >>

(***************************************************************************)
(* Errors (src/src/mos/error.rs).  A TaggedError carries only a message;   *)
(* the kind of a failure is the message it was built from.                 *)
(***************************************************************************)
Ok(v) == [kind |-> "Ok", value |-> v]

\* error::new(msg)
Err(msg) == [kind |-> "Err", msg |-> msg]

\* impl From<chrono::format::ParseError> for TaggedError: the message is the
\* Display of the chrono error.
FromChrono(msg) == [kind |-> "Err", msg |-> msg]

\* A panic of the call (an out-of-range slice): no value is returned.
Panic == [kind |-> "Panic"]

MsgEmpty    == "mos string is empty"
MsgNoIcao   == "no icao in the first line of the mos"
MsgNoDate   == "no date in the first line of the mos"
MsgNoTime   == "no time in the first line of the mos"
MsgHourLine == "could not parse hour line"

ChronoTooShort   == "premature end of input"
ChronoInvalid    == "input contains invalid characters"
ChronoTooLong    == "trailing input"
ChronoOutOfRange == "input is out of range"

ChronoMsgs == {ChronoTooShort, ChronoInvalid, ChronoTooLong, ChronoOutOfRange}

(***************************************************************************)
(* Utc.datetime_from_str(s, "%m/%d/%Y %H%M")                               *)
(***************************************************************************)
IsLeap(y) == (y % 4 = 0 /\ y % 100 # 0) \/ y % 400 = 0

DaysInMonth(y, m) ==
  IF m = 2 THEN (IF IsLeap(y) THEN 29 ELSE 28)
  ELSE IF m \in {4, 6, 9, 11} THEN 30 ELSE 31

RECURSIVE DaysBeforeMonth(_, _)
DaysBeforeMonth(y, m) ==
  IF m <= 1 THEN 0 ELSE DaysBeforeMonth(y, m - 1) + DaysInMonth(y, m - 1)

LeapsThrough(y) == (y \div 4) - (y \div 100) + (y \div 400)

\* Days from 1970-01-01 to y-m-d, for y >= 1.
DaysFromEpoch(y, m, d) ==
  365 * (y - 1970) + (LeapsThrough(y - 1) - LeapsThrough(1969))
    + DaysBeforeMonth(y, m) + (d - 1)

\* Minutes since the epoch of y-m-d h:mi.
Instant(y, m, d, h, mi) == (DaysFromEpoch(y, m, d) * 24 + h) * 60 + mi

\* A numeric item of the format: leading whitespace is skipped, then between
\* 1 and max digits are taken greedily.
ScanNumber(s, max) ==
  LET t == TrimLeft(s)
      k == CountDigits(t, 0, max)
  IN  IF t = << >> THEN [ok |-> FALSE, msg |-> ChronoTooShort]
      ELSE IF k = 0 THEN [ok |-> FALSE, msg |-> ChronoInvalid]
      ELSE [ok |-> TRUE, value |-> DigitsValue(Slice(t, 0, k), 0),
            rest |-> Slice(t, k, Len(t))]

\* %Y: a sign lifts the four-digit limit.
ScanYear(s) ==
  LET t == TrimLeft(s)
  IN  IF t # << >> /\ t[1] \in {"+", "-"}
      THEN LET r == ScanNumber(Tail(t), Len(t))
           IN  IF r.ok /\ t[1] = "-"
               THEN [r EXCEPT !.value = 0 - r.value] ELSE r
      ELSE ScanNumber(t, 4)

\* A literal item: the input must start with it.
ScanLiteral(s, c) ==
  IF s = << >> THEN [ok |-> FALSE, msg |-> ChronoTooShort]
  ELSE IF s[1] # c THEN [ok |-> FALSE, msg |-> ChronoInvalid]
  ELSE [ok |-> TRUE, rest |-> Tail(s)]

datetime_from_str(s) ==
  LET mo == ScanNumber(s, 2) IN
  IF ~mo.ok THEN FromChrono(mo.msg) ELSE
  LET l1 == ScanLiteral(mo.rest, "/") IN
  IF ~l1.ok THEN FromChrono(l1.msg) ELSE
  LET da == ScanNumber(l1.rest, 2) IN
  IF ~da.ok THEN FromChrono(da.msg) ELSE
  LET l2 == ScanLiteral(da.rest, "/") IN
  IF ~l2.ok THEN FromChrono(l2.msg) ELSE
  LET yr == ScanYear(l2.rest) IN
  IF ~yr.ok THEN FromChrono(yr.msg) ELSE
  LET ho == ScanNumber(TrimLeft(yr.rest), 2) IN
  IF ~ho.ok THEN FromChrono(ho.msg) ELSE
  IF ho.value >= 24 THEN FromChrono(ChronoOutOfRange) ELSE
  LET mi == ScanNumber(ho.rest, 2) IN
  IF ~mi.ok THEN FromChrono(mi.msg) ELSE
  IF mi.rest # << >> THEN FromChrono(ChronoTooLong) ELSE
  IF \/ mo.value \notin 1..12
     \/ da.value \notin 1..DaysInMonth(yr.value, mo.value)
     \/ mi.value \notin 0..59
  THEN FromChrono(ChronoOutOfRange)
  ELSE Ok(Instant(yr.value, mo.value, da.value, ho.value, mi.value))

(***************************************************************************)
(* MOS::parse_meta                                                         *)
(***************************************************************************)
\* Iterator::nth(k) on the tokens from position p (1-based) on: the token at
\* p + k, if any; the iterator then stands after it.
NthToken(tokens, p, k) ==
  IF p + k <= Len(tokens) THEN <<tokens[p + k]>> ELSE << >>

\* parse_meta with the date taken by nth(4): one token too far.
parse_meta_nth4(meta_line) ==
  LET all_meta == SplitWhitespace(meta_line)
      icao     == NthToken(all_meta, 1, 0)
      date     == NthToken(all_meta, 2, 4)
      time     == NthToken(all_meta, 7, 0)
  IN  IF icao = << >> THEN Err(MsgNoIcao)
      ELSE IF date = << >> THEN Err(MsgNoDate)
      ELSE IF time = << >> THEN Err(MsgNoTime)
      ELSE LET ts == datetime_from_str(date[1] \o <<" ">> \o time[1])
           IN  IF ts.kind # "Ok" THEN ts
               ELSE Ok([icao |-> icao[1], timestamp |-> ts.value])

parse_meta(meta_line) ==
  LET all_meta == SplitWhitespace(meta_line)
      icao     == NthToken(all_meta, 1, 0)
      date     == NthToken(all_meta, 2, 3)
      time     == NthToken(all_meta, 6, 0)
  IN  IF icao = << >> THEN Err(MsgNoIcao)
      ELSE IF date = << >> THEN Err(MsgNoDate)
      ELSE IF time = << >> THEN Err(MsgNoTime)
      ELSE LET ts == datetime_from_str(date[1] \o <<" ">> \o time[1])
           IN  IF ts.kind # "Ok" THEN ts
               ELSE Ok([icao |-> icao[1], timestamp |-> ts.value])

(***************************************************************************)
(* MOS::new: the column locator                                            *)
(***************************************************************************)
HR == <<"H", "R">>

\* The filter closure: the line matches ^ *([^ ]+) +.*$ and its first group
\* is "HR".  The group is the first maximal run of non-space characters and
\* at least one space has to follow it.
IsHourLine(line) ==
  LET p == SkipSpaces(line, 0)
      e == SkipNonSpaces(line, p)
  IN  e > p /\ e < Len(line) /\ Slice(line, p, e) = HR

\* lines.iter().filter(..).next(): the index of the first hour line, or 0.
RECURSIVE FirstHourLine(_, _)
FirstHourLine(lines, k) ==
  IF k > Len(lines) THEN 0
  ELSE IF IsHourLine(lines[k]) THEN k
  ELSE FirstHourLine(lines, k + 1)

\* MatchEnd for the pattern ( *[0-9]+) cut at two digits: one digit is
\* enough for a column.
MatchEnd_one_digit(line, s) ==
  LET k == SkipSpaces(line, s)
  IN  IF k + 2 <= Len(line) /\ IsDigit(line[k + 1]) /\ IsDigit(line[k + 2])
      THEN k + 2
      ELSE IF k + 1 <= Len(line) /\ IsDigit(line[k + 1]) THEN k + 1
      ELSE 0 - 1

\* Whether ( *[0-9][0-9]) matches at offset s, and where the match ends: the
\* spaces are taken greedily and the two digits must follow them.
MatchEnd(line, s) ==
  LET k == SkipSpaces(line, s)
  IN  IF k + 2 <= Len(line) /\ IsDigit(line[k + 1]) /\ IsDigit(line[k + 2])
      THEN k + 2 ELSE 0 - 1

\* data_re.find_iter(line).map(|time| (time.start(), time.end())): the
\* leftmost matches, each search resuming where the last match ended.
RECURSIVE find_iter(_, _)
find_iter(line, s) ==
  IF s + 2 > Len(line) THEN << >>
  ELSE LET e == MatchEnd(line, s)
       IN  IF e >= 0 THEN <<(<<s, e>>)>> \o find_iter(line, e)
           ELSE find_iter(line, s + 1)

(***************************************************************************)
(* MOS::new: the field mapper                                              *)
(***************************************************************************)
None == << >>

Some(v) == <<v>>

\* MOSEntry::default()
MOSEntry_default ==
  [timestamp |-> 0,
   nx |-> None, tmp |-> None, dpt |-> None, cld |-> None, wdr |-> None,
   wsp |-> None, p06 |-> None, p12 |-> None, q06 |-> None, q12 |-> None,
   t06 |-> None, t12 |-> None, poz |-> None, pos |-> None, typ |-> None,
   snw |-> None, cig |-> None, vis |-> None, obv |-> None]

\* The arms of `match prefix_str`: the field a label stores into, "" for the
\* `_ => return` arm.
LabelField(label) ==
  CASE label = <<"N", "/", "X">> -> "nx"
    [] label = <<"X", "/", "N">> -> "nx"
    [] label = <<"T", "M", "P">> -> "tmp"
    [] label = <<"D", "P", "T">> -> "dpt"
    [] label = <<"C", "L", "D">> -> "cld"
    [] label = <<"W", "D", "R">> -> "wdr"
    [] label = <<"W", "S", "P">> -> "wsp"
    [] label = <<"P", "0", "6">> -> "p06"
    [] label = <<"P", "1", "2">> -> "p12"
    [] label = <<"Q", "0", "6">> -> "q06"
    [] label = <<"Q", "1", "2">> -> "q12"
    [] label = <<"P", "O", "Z">> -> "poz"
    [] label = <<"P", "O", "S">> -> "pos"
    [] label = <<"T", "Y", "P">> -> "typ"
    [] label = <<"S", "N", "W">> -> "snw"
    [] label = <<"C", "I", "G">> -> "cig"
    [] label = <<"V", "I", "S">> -> "vis"
    [] label = <<"O", "B", "V">> -> "obv"
    [] OTHER -> ""

\* The arms that store Some(data.to_string()).
StringFields == {"cld", "typ", "obv"}

\* What an arm stores for the trimmed cell.
Decoded(field, data) ==
  IF field \in StringFields THEN Some(data) ELSE ParseIsize(data)

\* prefix_re.find(line) for ^ *([^ ]+): the end of the match, 0 when the line
\* has no non-space character (no match).
PrefixEnd(line) == SkipNonSpaces(line, SkipSpaces(line, 0))

HasPrefix(line) == SkipSpaces(line, 0) < Len(line)

\* The bounds of the slice the closure takes for column i with span chunk.
DataStart(line, i, chunk) == IF i = 0 THEN PrefixEnd(line) ELSE chunk[1]

\* map_line storing a parsed value only: a cell that does not parse leaves
\* the field as an earlier line set it.
map_line_keep(entry, line, i, chunk) ==
  IF ~HasPrefix(line) THEN [panic |-> FALSE, entry |-> entry]
  ELSE LET prefix_str == Trim(Slice(line, 0, PrefixEnd(line)))
           a          == DataStart(line, i, chunk)
           field      == LabelField(prefix_str)
       IN  IF SlicePanics(line, a, chunk[2])
           THEN [panic |-> TRUE, entry |-> entry]
           ELSE IF field = "" THEN [panic |-> FALSE, entry |-> entry]
           ELSE LET v == Decoded(field, Trim(Slice(line, a, chunk[2])))
                IN  [panic |-> FALSE,
                     entry |-> IF v = None THEN entry
                               ELSE [entry EXCEPT ![field] = v]]

\* The closure passed to lines.iter().for_each for column i: the slice is
\* taken before the label is looked at.
map_line(entry, line, i, chunk) ==
  IF ~HasPrefix(line) THEN [panic |-> FALSE, entry |-> entry]
  ELSE LET prefix_str == Trim(Slice(line, 0, PrefixEnd(line)))
           a          == DataStart(line, i, chunk)
           field      == LabelField(prefix_str)
       IN  IF SlicePanics(line, a, chunk[2])
           THEN [panic |-> TRUE, entry |-> entry]
           ELSE IF field = "" THEN [panic |-> FALSE, entry |-> entry]
           ELSE [panic |-> FALSE,
                 entry |-> [entry EXCEPT
                   ![field] = Decoded(field, Trim(Slice(line, a, chunk[2])))]]

\* lines.iter().for_each(..) from line k on.
RECURSIVE map_lines(_, _, _, _, _)
map_lines(entry, lines, k, i, chunk) ==
  IF k > Len(lines) THEN [panic |-> FALSE, entry |-> entry]
  ELSE LET r == map_line(entry, lines[k], i, chunk)
       IN  IF r.panic THEN r ELSE map_lines(r.entry, lines, k + 1, i, chunk)

\* chunks.iter().enumerate().map(..).collect(): entry i (0-based) is built
\* from chunk i; a panic in any closure call unwinds out of the whole call.
build_entries(lines, chunks) ==
  LET built == [j \in 1..Len(chunks) |->
                  map_lines(MOSEntry_default, lines, 1, j - 1, chunks[j])]
  IN  IF \E j \in 1..Len(chunks) : built[j].panic
      THEN [panic |-> TRUE, entries |-> << >>]
      ELSE [panic |-> FALSE,
            entries |-> [j \in 1..Len(chunks) |-> built[j].entry]]

(***************************************************************************)
(* MOS::new: the timestamp assigner                                        *)
(***************************************************************************)
\* add_hours with the correction subtracted.
add_hours_minus(i, num_entries) ==
  IF num_entries > 2 /\ i >= num_entries - 2
  THEN (i * 3 + 6) - 3 * (3 - (num_entries - i))
  ELSE i * 3 + 6

\* add_hours without the num_entries > 2 guard.
add_hours_unguarded(i, num_entries) ==
  IF i >= num_entries - 2
  THEN (i * 3 + 6) + 3 * (3 - (num_entries - i))
  ELSE i * 3 + 6

\* add_hours with the last entry alone corrected.
add_hours_last_only(i, num_entries) ==
  IF num_entries > 2 /\ i >= num_entries - 1
  THEN (i * 3 + 6) + 3 * (3 - (num_entries - i))
  ELSE i * 3 + 6

\* The hours added to the base timestamp for entry i (0-based) of
\* num_entries.
add_hours(i, num_entries) ==
  IF num_entries > 2 /\ i >= num_entries - 2
  THEN (i * 3 + 6) + 3 * (3 - (num_entries - i))
  ELSE i * 3 + 6

assign_timestamps(entries, base_ts) ==
  [j \in 1..Len(entries) |->
     [entries[j] EXCEPT
        !.timestamp = base_ts + 60 * add_hours(j - 1, Len(entries))]]

(***************************************************************************)
(* MOS::new                                                                *)
(***************************************************************************)
MOS_new(raw_mos) ==
  LET lines == Split(raw_mos) IN
  IF Len(lines) = 0 THEN Err(MsgEmpty) ELSE
  LET meta == parse_meta(lines[1]) IN
  IF meta.kind # "Ok" THEN meta ELSE
  LET h == FirstHourLine(lines, 1) IN
  IF h = 0 THEN Err(MsgHourLine) ELSE
  LET chunks == find_iter(lines[h], 0)
      built  == build_entries(lines, chunks)
  IN  IF built.panic THEN Panic
      ELSE Ok([meta    |-> meta.value,
               entries |-> assign_timestamps(built.entries,
                                             meta.value.timestamp),
               raw     |-> raw_mos])

(***************************************************************************)
(* The inputs: bulletins assembled line by line from header lines and      *)
(* table rows.  Each definition spells one line of text.                   *)
(***************************************************************************)
HdrExample ==
  <<"K", "F", "I", "T", " ", " ", " ", "G", "F", "S", " ", "M", "O", "S",
    " ", "G", "U", "I", "D", "A", "N", "C", "E", " ", " ", " ", " ", "1",
    "/", "0", "2", "/", "2", "0", "2", "0", " ", " ", "0", "0", "0", "0",
    " ", "U", "T", "C">>

HdrShort ==
  <<"K", " ", "G", " ", "M", " ", "G", " ", "1", "/", "2", "/", "2", "0",
    "2", "0", " ", "0", "0", "0", "0">>

HdrNoDate ==
  <<"K", "F", "I", "T", " ", " ", " ", "G", "F", "S", " ", "M", "O", "S",
    " ", "G", "U", "I", "D", "A", "N", "C", "E", " ", " ", " ", " ", "0",
    "0", "0", "0", " ", "U", "T", "C">>

HdrFourTokens ==
  <<"K", "F", "I", "T", " ", "G", "F", "S", " ", "M", "O", "S", " ", "G",
    "U", "I", "D", "A", "N", "C", "E">>

HdrNoTime ==
  <<"K", "F", "I", "T", " ", "G", "F", "S", " ", "M", "O", "S", " ", "G",
    "U", "I", "D", "A", "N", "C", "E", " ", "1", "/", "0", "2", "/", "2",
    "0", "2", "0">>

HdrNoDateNoZone ==
  <<"K", "F", "I", "T", " ", "G", "F", "S", " ", "M", "O", "S", " ", "G",
    "U", "I", "D", "A", "N", "C", "E", " ", "0", "0", "0", "0">>

HdrBadDay ==
  <<"K", " ", "G", " ", "M", " ", "G", " ", "2", "/", "3", "0", "/", "2",
    "0", "2", "0", " ", "0", "0", "0", "0">>

HdrBadHour ==
  <<"K", " ", "G", " ", "M", " ", "G", " ", "1", "/", "0", "2", "/", "2",
    "0", "2", "0", " ", "2", "4", "6", "0">>

HdrLeap ==
  <<"K", " ", "G", " ", "M", " ", "G", " ", "0", "2", "/", "2", "9", "/",
    "2", "0", "2", "0", " ", "1", "2", "3", "0">>

HdrBlank ==
  <<" ", " ">>

HdrIsHourRow ==
  <<"H", "R", " ", "G", " ", "M", " ", "G", " ", "1", "/", "0", "2", "/",
    "2", "0", "2", "0", " ", "0", "0", "0", "0">>

RowHR6 ==
  <<"H", "R", " ", " ", " ", "0", "6", " ", "0", "9", " ", "1", "2", " ",
    "1", "5", " ", "1", "8", " ", "2", "1">>

RowHR3 ==
  <<"H", "R", " ", " ", "0", "6", " ", "0", "9", " ", "1", "2">>

RowHR2 ==
  <<"H", "R", " ", " ", "0", "6", " ", "0", "9", " ", "1">>

RowHR1 ==
  <<"H", "R", " ", " ", "0", "6", " ", "9">>

RowHR0 ==
  <<"H", "R", " ", "x", "x">>

RowTMP6 ==
  <<"T", "M", "P", " ", " ", "3", "0", " ", "2", "8", " ", "2", "7", " ",
    "3", "5", " ", "4", "0", " ", "3", "8">>

RowTMP3 ==
  <<"T", "M", "P", " ", "3", "0", " ", "3", "1", " ", "3", "2">>

RowTMP3x ==
  <<"T", "M", "P", " ", "-", "5", " ", "3", "x", " ", "+", "4">>

RowTMPShort ==
  <<"T", "M", "P", " ", "3", "0">>

RowNX ==
  <<"N", "/", "X", " ", "5", "0", " ", "5", "1", " ", "5", "2">>

RowXN ==
  <<"X", "/", "N", " ", "6", "0", " ", " ", "x", " ", "6", "2">>

RowLongLabel ==
  <<"L", "O", "N", "G", "L", "A", "B", "E", "L", " ", "1", " ", "2">>

RowEmpty ==
  << >>

\* The first lines the model tries: the header of a real bulletin, a short
\* one, headers with tokens missing, with tokens that form no instant, and
\* the empty line.
Headers ==
  {HdrExample, HdrShort, HdrNoDate, HdrFourTokens, HdrNoTime,
   HdrNoDateNoZone, HdrBadDay, HdrBadHour, HdrLeap, HdrBlank, HdrIsHourRow,
   << >>}

\* Table rows that may follow the example header.
Rows ==
  {RowHR6, RowHR3, RowHR2, RowHR1, RowHR0, RowTMP6, RowTMP3, RowTMP3x,
   RowTMPShort, RowNX, RowXN, RowLongLabel, RowEmpty}

\* Rows that may follow the other headers.
FewRows == {RowHR2, RowTMP3, RowEmpty}

\* The rows a caller may append to a text that starts with header line h.
RowsAfter(h) ==
  IF h = HdrExample THEN Rows
  ELSE IF h = HdrShort THEN FewRows \cup {RowHR6}
  ELSE FewRows

\* The most lines a bulletin of the model has.
MaxLines == 4

(***************************************************************************)
(* The state machine: a caller assembles the raw text, then calls          *)
(* MOS::new on it once.                                                    *)
(***************************************************************************)
NoResult == [kind |-> "None"]

\* The number of lines written so far (0 before the first).
RECURSIVE Newlines(_)
Newlines(s) ==
  IF s = << >> THEN 0
  ELSE (IF s[1] = "\n" THEN 1 ELSE 0) + Newlines(Tail(s))

Init ==
  /\ raw = << >>
  /\ pc = "empty"
  /\ result = NoResult

\* The caller writes the first line of the text.
WriteHeader(l) ==
  /\ pc = "empty"
  /\ raw' = l
  /\ pc' = "text"
  /\ UNCHANGED result

\* The caller appends a further line.
WriteRow(l) ==
  /\ pc = "text"
  /\ Newlines(raw) + 1 < MaxLines
  /\ raw' = raw \o <<"\n">> \o l
  /\ UNCHANGED <<pc, result>>

\* MOS::new(&raw)
Decode ==
  /\ pc \in {"empty", "text"}
  /\ result' = MOS_new(raw)
  /\ pc' = "done"
  /\ UNCHANGED raw

Next ==
  \/ \E l \in Headers : WriteHeader(l)
  \/ \E l \in RowsAfter(Split(raw)[1]) : WriteRow(l)
  \/ Decode

Spec == Init /\ [][Next]_vars

(***************************************************************************)
(* Vocabulary of the properties                                            *)
(***************************************************************************)
Done == pc = "done"

\* MOS::new returned Ok(mos).
Returned == Done /\ result.kind = "Ok"

entries == result.value.entries

\* The kind of a failure, read off its message: the messages of parse_meta
\* are the missing-token errors, the chrono messages the timestamp errors.
ErrorKind(r) ==
  IF r.kind # "Err" THEN "none"
  ELSE IF r.msg = MsgEmpty THEN "EmptyInput"
  ELSE IF r.msg \in {MsgNoIcao, MsgNoDate, MsgNoTime} THEN "MalformedHeader"
  ELSE IF r.msg \in ChronoMsgs THEN "TimestampParse"
  ELSE IF r.msg = MsgHourLine THEN "NoHourRow"
  ELSE "other"

LabelOf(line) == Trim(Slice(line, 0, PrefixEnd(line)))

\* The end offsets of the two-digit numbers of a line, left to right: a scan
\* for pairs of digits, a pair never sharing a digit with the one before.
RECURSIVE PairEnds(_, _)
PairEnds(line, p) ==
  IF p + 2 > Len(line) THEN << >>
  ELSE IF IsDigit(line[p + 1]) /\ IsDigit(line[p + 2])
       THEN <<p + 2>> \o PairEnds(line, p + 2)
       ELSE PairEnds(line, p + 1)

\* The offset at which the run of spaces ending at offset q starts, not
\* before lo.
RECURSIVE SpaceRunStart(_, _, _)
SpaceRunStart(line, q, lo) ==
  IF q > lo /\ IsSpace(line[q]) THEN SpaceRunStart(line, q - 1, lo) ELSE q

\* The columns of an hour line: each two-digit number with the spaces before
\* it, as (start, end).
ColumnsOf(line) ==
  LET ends == PairEnds(line, 0)
  IN  [j \in 1..Len(ends) |->
         <<SpaceRunStart(line, ends[j] - 2,
                         IF j = 1 THEN 0 ELSE ends[j - 1]),
           ends[j]>>]

\* The columns of the first line of ls labelled "HR"; none without one.
HourColumns(ls) ==
  IF FirstHourLine(ls, 1) = 0 THEN << >>
  ELSE ColumnsOf(ls[FirstHourLine(ls, 1)])

\* The last of the lines ls, at or before k, whose label stores into field; 0
\* if none.
RECURSIVE LastLineFor(_, _, _)
LastLineFor(field, ls, k) ==
  IF k = 0 THEN 0
  ELSE IF HasPrefix(ls[k]) /\ LabelField(LabelOf(ls[k])) = field THEN k
  ELSE LastLineFor(field, ls, k - 1)

\* The text of a line inside column j (1-based), as far as the line reaches:
\* the first column starts where the line's own label ends.
CellOf(line, j, cols) ==
  LET a == IF j = 1 THEN PrefixEnd(line) ELSE cols[j][1]
      b == IF cols[j][2] < Len(line) THEN cols[j][2] ELSE Len(line)
  IN  IF a >= b THEN << >> ELSE Trim(Slice(line, a, b))

\* The values the last line of ls for an integer field gives the entries.
LastValues(field, ls, cols) ==
  LET k == LastLineFor(field, ls, Len(ls))
  IN  [j \in 1..Len(cols) |->
         IF k = 0 THEN None ELSE ParseIsize(CellOf(ls[k], j, cols))]

\* The fields entry by entry.
FieldOf(es, field) == [j \in 1..Len(es) |-> es[j][field]]

\* Hours between the base timestamp of the report and entry j's timestamp.
HoursAfterBase(j) ==
  (entries[j].timestamp - result.value.meta.timestamp) \div 60

WholeHours(j) ==
  (entries[j].timestamp - result.value.meta.timestamp) % 60 = 0

(***************************************************************************)
(* C1                                                                      *)
(***************************************************************************)
\* C1: whenever MOS::new returns Ok, the report has as many entries as the
\* first line labelled "HR" has two-digit columns, and entry i belongs to the
\* i-th column from the left: its temperature is the one the last TMP row
\* carries in that column.
C1_EntriesMatchColumns ==
  Returned =>
    LET ls   == Split(raw)
        cols == HourColumns(ls)
    IN  /\ FirstHourLine(ls, 1) # 0
        /\ Len(entries) = Len(cols)
        /\ FieldOf(entries, "tmp") = LastValues("tmp", ls, cols)

\* A report of four or more entries whose temperatures are all present.
C1_Witness ==
  /\ Returned
  /\ Len(entries) >= 4
  /\ \A j \in 1..Len(entries) : entries[j].tmp # None

(***************************************************************************)
(* C2                                                                      *)
(***************************************************************************)
\* C2: with a valid header and an "HR" line that has no two-digit column,
\* MOS::new fails with the hour-line error and returns no report.
C2_ZeroColumnsFail ==
  Done =>
    LET ls == Split(raw)
    IN  (/\ parse_meta(ls[1]).kind = "Ok"
         /\ FirstHourLine(ls, 1) # 0
         /\ HourColumns(ls) = << >>)
        => (result.kind = "Err" /\ result.msg = MsgHourLine)

(***************************************************************************)
(* C3                                                                      *)
(***************************************************************************)
\* C3: once the header and the hour row are accepted, a text all of whose
\* labelled lines carry unrecognized labels decodes to a report, whatever the
\* lengths of those lines.
C3_UnrecognizedLinesIgnored ==
  Done =>
    LET ls == Split(raw)
    IN  (/\ parse_meta(ls[1]).kind = "Ok"
         /\ FirstHourLine(ls, 1) # 0
         /\ \A k \in 1..Len(ls) :
              HasPrefix(ls[k]) => LabelField(LabelOf(ls[k])) = "")
        => result.kind = "Ok"

(***************************************************************************)
(* C4                                                                      *)
(***************************************************************************)
\* C4: when the TMP row, a line below the hour row, has a cell that does not
\* parse as a signed integer (a cell the line does not reach is empty),
\* decoding still succeeds, the temperature of that column's entry is absent
\* and the temperature of every other entry is the integer of its cell.
C4_BadCellLeavesFieldAbsent ==
  Done =>
    LET ls   == Split(raw)
        cols == HourColumns(ls)
        tmps == LastValues("tmp", ls, cols)
    IN  (/\ parse_meta(ls[1]).kind = "Ok"
         /\ FirstHourLine(ls, 1) > 1
         /\ LastLineFor("tmp", ls, Len(ls)) > FirstHourLine(ls, 1)
         /\ \E j \in 1..Len(cols) : tmps[j] = None)
        => (/\ result.kind = "Ok"
            /\ Len(entries) = Len(cols)
            /\ FieldOf(entries, "tmp") = tmps)

(***************************************************************************)
(* C5                                                                      *)
(***************************************************************************)
\* A token of the shape of a date: it holds a "/".
DateShaped(tok) == \E k \in 1..Len(tok) : tok[k] = "/"

\* The tokens of a header line hold no date token.
DateOmitted(toks) == \A k \in 1..Len(toks) : ~DateShaped(toks[k])

\* The 5th and 6th tokens of a header line form an instant.
StampValid(toks) ==
  datetime_from_str(toks[5] \o <<" ">> \o toks[6]).kind = "Ok"

\* C5 as claimed: a header line without a date token fails with
\* MalformedHeader whatever else it carries, and a header with date and time
\* tokens that form no instant fails with TimestampParse.
C5_DateOmittedIsMalformed ==
  Done =>
    LET toks == SplitWhitespace(Split(raw)[1])
    IN  /\ DateOmitted(toks) => ErrorKind(result) = "MalformedHeader"
        /\ (Len(toks) >= 6 /\ DateShaped(toks[5]) /\ ~StampValid(toks))
             => ErrorKind(result) = "TimestampParse"

\* C5 as amended: the tokens are taken by position.  A header line of fewer
\* than six tokens fails with MalformedHeader; one of six or more tokens whose
\* 5th and 6th form no instant fails with TimestampParse, a line that lost
\* its date but kept six tokens included; when they form an instant the
\* header raises neither.
C5_HeaderKindsByPosition ==
  Done =>
    LET toks == SplitWhitespace(Split(raw)[1])
    IN  /\ Len(toks) < 6 => ErrorKind(result) = "MalformedHeader"
        /\ (Len(toks) >= 6 /\ ~StampValid(toks))
             => ErrorKind(result) = "TimestampParse"
        /\ (Len(toks) >= 6 /\ StampValid(toks))
             => ErrorKind(result) \notin {"MalformedHeader", "TimestampParse"}

\* A header that lost its date token and still has six tokens was decoded
\* and failed with a timestamp error.
C5_Witness ==
  /\ Done
  /\ DateOmitted(SplitWhitespace(Split(raw)[1]))
  /\ Len(SplitWhitespace(Split(raw)[1])) >= 6
  /\ ErrorKind(result) = "TimestampParse"

(***************************************************************************)
(* C6                                                                      *)
(***************************************************************************)
\* C6: decoding the empty string fails with "mos string is empty", which is
\* not a MalformedHeader failure.
C6_EmptyInputKind ==
  (Done /\ raw = << >>)
  => /\ result.kind = "Err"
     /\ result.msg = MsgEmpty
     /\ ErrorKind(result) # "MalformedHeader"

(***************************************************************************)
(* C7                                                                      *)
(***************************************************************************)
\* C7: in every report returned, each entry's timestamp is strictly earlier
\* than the next entry's.
C7_TimestampsIncrease ==
  Returned =>
    \A j \in 1..(Len(entries) - 1) :
      entries[j].timestamp < entries[j + 1].timestamp

\* A report of exactly three entries: every entry but the first is corrected.
C7_Witness == Returned /\ Len(entries) = 3

(***************************************************************************)
(* C8                                                                      *)
(***************************************************************************)
\* C8: with n entries, entry i (0-based) lies 3i + 6 hours after the base
\* timestamp when n <= 2 or i < n - 2; when n > 2, entry n - 2 lies 3 hours
\* and entry n - 1 lies 6 hours beyond 3i + 6.
C8_TimestampFormula ==
  Returned =>
    LET n == Len(entries)
    IN  \A j \in 1..n :
          LET i == j - 1
          IN  /\ WholeHours(j)
              /\ (n <= 2 \/ i < n - 2) => HoursAfterBase(j) = 3 * i + 6
              /\ (n > 2 /\ i = n - 2) => HoursAfterBase(j) = 3 * i + 6 + 3
              /\ (n > 2 /\ i = n - 1) => HoursAfterBase(j) = 3 * i + 6 + 6

\* A report of six entries off the example's base: four entries follow
\* 3i + 6 and the last two are corrected.
C8_Witness ==
  /\ Returned
  /\ Len(entries) = 6
  /\ result.value.meta.timestamp = Instant(2020, 1, 2, 0, 0)

\* A report of two entries, none corrected, off a base that is not midnight.
C8_WitnessShort ==
  /\ Returned
  /\ Len(entries) = 2
  /\ result.value.meta.timestamp = Instant(2020, 2, 29, 12, 30)

(***************************************************************************)
(* C9                                                                      *)
(***************************************************************************)
TMP == <<"T", "M", "P">>

\* line is a TMP row with a cell that parses in each of the six columns of
\* the hour line hour.
SixCells(line, hour) ==
  /\ HasPrefix(line)
  /\ LabelOf(line) = TMP
  /\ Len(line) >= ColumnsOf(hour)[6][2]
  /\ \A j \in 1..6 : ParseIsize(CellOf(line, j, ColumnsOf(hour))) # None

\* The bulletin of the example: the header of 2020-01-02T00:00Z, and for its
\* non-empty lines an hour row of six two-digit columns and a TMP row of six
\* cells.
ExampleBulletin ==
  LET ls   == Split(raw)
      body == SelectSeq(Tail(ls), LAMBDA l : l # << >>)
  IN  /\ ls[1] = HdrExample
      /\ Len(body) = 2
      /\ \E h \in 1..2 :
           /\ IsHourLine(body[h])
           /\ Len(ColumnsOf(body[h])) = 6
           /\ SixCells(body[3 - h], body[h])

\* The hours after the base the example's entries are claimed to lie at.
ClaimedExampleHours == <<6, 9, 12, 15, 18, 27>>

\* The hours after the base at which they lie.
ExampleHours == <<6, 9, 12, 15, 21, 27>>

ExampleDecodesWith(hours) ==
  /\ result.kind = "Ok"
  /\ result.value.meta.timestamp = Instant(2020, 1, 2, 0, 0)
  /\ Len(entries) = 6
  /\ FieldOf(entries, "tmp")
       = LastValues("tmp", Split(raw), HourColumns(Split(raw)))
  /\ \A j \in 1..6 :
       /\ entries[j].tmp # None
       /\ entries[j].timestamp = Instant(2020, 1, 2, 0, 0) + 60 * hours[j]

\* C9 as claimed: the example decodes to six entries with their temperatures,
\* the first five 6, 9, 12, 15 and 18 hours after the base and the sixth 21
\* hours plus its correction of 6.
C9_ExampleAsClaimed ==
  (Done /\ ExampleBulletin) => ExampleDecodesWith(ClaimedExampleHours)

\* C9 as amended: the example decodes to six entries with their temperatures,
\* 6, 9, 12 and 15 hours after the base for the first four, 21 hours (18 + 3)
\* for the fifth and 27 hours (21 + 6) for the sixth.
C9_ExampleTimestamps ==
  (Done /\ ExampleBulletin) => ExampleDecodesWith(ExampleHours)

\* The example was decoded.
C9_Witness == Done /\ ExampleBulletin /\ result.kind = "Ok"

(***************************************************************************)
(* C10                                                                     *)
(***************************************************************************)
\* The fields filled by parsing an integer.
IntegerFields ==
  {"nx", "tmp", "dpt", "wdr", "wsp", "p06", "p12", "q06", "q12", "poz",
   "pos", "snw", "cig", "vis"}

\* C10: in a report returned, every integer field of entry i is what the
\* last line for that field gives in column i, its integer when the cell
\* parses and absent when it does not, whatever earlier lines for the field
\* held.
C10_LastLineWins ==
  Returned =>
    LET ls   == Split(raw)
        cols == HourColumns(ls)
    IN  \A f \in IntegerFields :
          FieldOf(entries, f) = LastValues(f, ls, cols)

\* A report in which an "N/X" line gave a column a value and a later "X/N"
\* line has a cell there that does not parse: the field is absent.
C10_Witness ==
  /\ Returned
  /\ LET ls   == Split(raw)
         cols == HourColumns(ls)
         k2   == LastLineFor("nx", ls, Len(ls))
     IN  \E j \in 1..Len(entries) :
           \E k1 \in 1..Len(ls) :
             /\ k1 < k2
             /\ HasPrefix(ls[k1])
             /\ LabelOf(ls[k1]) = <<"N", "/", "X">>
             /\ LabelOf(ls[k2]) = <<"X", "/", "N">>
             /\ ParseIsize(CellOf(ls[k1], j, cols)) # None
             /\ ParseIsize(CellOf(ls[k2], j, cols)) = None
             /\ entries[j].nx = None

====
